---------------------------- MODULE Spec2Model ----------------------------
(***************************************************************************)
(* get_screen (My-Code/utils.py): render a gym environment, resize the     *)
(* frame with skimage, turn it into a torch tensor, permute its axes, add  *)
(* a batch axis and move it to a device.                                   *)
(*                                                                         *)
(* Arrays and tensors are records                                          *)
(*   [kind, dtype, device, shape, den, data]                               *)
(* with data the elements in row-major (C) order, as numpy and torch lay   *)
(* them out, and element i standing for the number data[i] / den.  The     *)
(* representation is kept canonical (den is the least common denominator), *)
(* so that = on arrays is equality of shape, type and every element.       *)
(* Floating-point rounding is not modelled: an element is the exact        *)
(* rational number the operation defines.                                  *)
(***************************************************************************)
EXTENDS Integers, Sequences, FiniteSets

(***************************************************************************)
(* Bounds of the model.                                                    *)
(***************************************************************************)
MaxH0 == 3        \* native render heights are 1..MaxH0
MaxW0 == 2        \* native render widths are 1..MaxW0
MaxDim == 2       \* explicit resize targets are 1..MaxDim (and -1)
MaxCalls == 2     \* calls of get_screen in one behaviour
MaxEnvSteps == 1  \* environment steps in one behaviour

(***************************************************************************)
(* Program constants.                                                      *)
(***************************************************************************)
DefaultH == 80    \* def get_screen(env, device, h=80, ...)
DefaultW == 80    \* def get_screen(env, device, ..., w=80)

Omitted == <<>>           \* an argument the call site does not pass; <<v>> passes v
None == [kind |-> "None"]
Channels == {1, 3}
Patterns == <<"ramp", "checker", "float">>
Devices == {"cpu", "cuda:0", "cuda:1"}
Available == {"cpu", "cuda:0"}   \* the host has one GPU: "cuda:1" does not exist

(***************************************************************************)
(* Arithmetic helpers.                                                     *)
(***************************************************************************)
Abs(n) == IF n < 0 THEN -n ELSE n

RECURSIVE GCD(_, _)
GCD(a, b) == IF b = 0 THEN a ELSE GCD(b, a % b)

RECURSIVE GCDRange(_, _, _)
GCDRange(data, lo, hi) ==
    IF lo = hi THEN Abs(data[lo])
    ELSE LET mid == (lo + hi) \div 2
             g == GCDRange(data, lo, mid)
         IN IF g = 1 THEN 1 ELSE GCD(g, GCDRange(data, mid + 1, hi))

SetMin(S) == CHOOSE m \in S : \A x \in S : m <= x
SetMax(S) == CHOOSE m \in S : \A x \in S : m >= x
Range(f) == {f[i] : i \in DOMAIN f}

(***************************************************************************)
(* Arrays.                                                                 *)
(***************************************************************************)
\* f itself, with every element evaluated (once) where it is built
Elements(f) == IF f = <<>> THEN <<>> ELSE f

\* den and data divided by their common factor
Canon(kind, dtype, device, shape, den, data) ==
    LET d == Elements(data)
        n == Len(d)
        g == IF n = 0 THEN den ELSE GCD(den, GCDRange(d, 1, n))
    IN [kind |-> kind, dtype |-> dtype, device |-> device, shape |-> shape,
        den |-> den \div g,
        data |-> IF g = 1 THEN d ELSE Elements([i \in 1..n |-> d[i] \div g])]

\* numerator of element (i0, i1, i2) of a 3-D array, indices from 0
At3(a, i0, i1, i2) == a.data[1 + (i0 * a.shape[2] + i1) * a.shape[3] + i2]

\* numerator of element (i0, i1, i2, i3) of a 4-D array, indices from 0
At4(a, i0, i1, i2, i3) ==
    a.data[1 + ((i0 * a.shape[2] + i1) * a.shape[3] + i2) * a.shape[4] + i3]


(***************************************************************************)
(* The environment.  Its visual state is a native resolution, a channel    *)
(* count and the picture currently shown; env.render(mode='rgb_array')     *)
(* returns that picture as an (H0, W0, C) array: 8-bit intensities for the *)
(* "ramp" and "checker" pictures, floating-point ones for "float".         *)
(***************************************************************************)
Envs == [H0 : 1..MaxH0, W0 : 1..MaxW0, C : Channels,
         pattern : 1..Len(Patterns), closed : BOOLEAN]

\* env.step(...): the picture shown changes
EnvAfterStep(e) == [e EXCEPT !.pattern = (e.pattern % Len(Patterns)) + 1]

\* env.close()
EnvAfterClose(e) == [e EXCEPT !.closed = TRUE]

Pixel(pattern, y, x, c, i) ==
    CASE pattern = "ramp" -> (7 + 23 * i) % 256
      [] pattern = "checker" -> IF (y + x) % 2 = 0 THEN 255 ELSE 0
      [] pattern = "float" -> 3 * i + 1       \* halves: 0.5, 2.0, 3.5, ...

\* k = env.render(mode='rgb_array')
render(e, mode) ==
    IF mode # "rgb_array" THEN None
    ELSE LET p == Patterns[e.pattern]
             n == e.H0 * e.W0 * e.C
         IN Canon("ndarray", IF p = "float" THEN "float64" ELSE "uint8", None,
                  <<e.H0, e.W0, e.C>>, IF p = "float" THEN 2 ELSE 1,
                  [i \in 1..n |->
                      LET j == i - 1
                      IN Pixel(p, j \div (e.W0 * e.C), (j \div e.C) % e.W0,
                               j % e.C, j)])

\* the error env.render raises on a closed environment
RenderError(e) == [origin |-> "render", exc |-> "gym.error.Error"]

(***************************************************************************)
(* skimage.transform.resize(image, output_shape, anti_aliasing=...), with  *)
(* the arguments get_screen leaves at their defaults: order=1 (bilinear),  *)
(* mode='reflect', clip=True, preserve_range=False.                        *)
(***************************************************************************)
\* preserve_range=True: the intensities are kept as they are
img_preserve_range(image) == [image EXCEPT !.dtype = "float64"]

\* preserve_range=False: the image is converted as by img_as_float, which
\* maps 8-bit intensities 0..255 onto [0, 1] and leaves floats as they are
img_as_float(image) ==
    IF image.dtype = "uint8"
    THEN Canon("ndarray", "float64", None, image.shape, image.den * 255, image.data)
    ELSE image

\* mode='reflect': index j of an axis of length n, mirrored at the edges
\* without repeating the edge sample (numpy.pad's 'reflect')
Mirror(j, n) ==
    IF n = 1 THEN 0
    ELSE LET p == 2 * (n - 1)
             r == j % p
         IN IF r <= n - 1 THEN r ELSE p - r

\* Output sample i of an axis resized from In to Out samples lies at input
\* coordinate (i + 1/2) * In / Out - 1/2 = SrcNum / (2 * Out).
SrcNum(i, In, Out) == (2 * i + 1) * In - Out
SrcLo(i, In, Out) == SrcNum(i, In, Out) \div (2 * Out)
SrcFrac(i, In, Out) == SrcNum(i, In, Out) % (2 * Out)

\* order=1 interpolation of a 3-D array to shape (Oh, Ow, C): linear along
\* axes 0 and 1; along the channel axis the factor is 1 and every sample
\* lies on an input sample.
zoom(a, Oh, Ow) ==
    LET Ih == a.shape[1]
        Iw == a.shape[2]
        C == a.shape[3]
        dy == 2 * Oh
        dx == 2 * Ow
        ylo == [y \in 0..(Oh - 1) |-> SrcLo(y, Ih, Oh)]
        yfr == [y \in 0..(Oh - 1) |-> SrcFrac(y, Ih, Oh)]
        xlo == [x \in 0..(Ow - 1) |-> SrcLo(x, Iw, Ow)]
        xfr == [x \in 0..(Ow - 1) |-> SrcFrac(x, Iw, Ow)]
        V(y, x, c) == At3(a, Mirror(y, Ih), Mirror(x, Iw), c)
        Row(y, x, c, fx) ==
            IF fx = 0 THEN dx * V(y, x, c)
            ELSE (dx - fx) * V(y, x, c) + fx * V(y, x + 1, c)
        Val(y, x, c) ==
            IF yfr[y] = 0 THEN dy * Row(ylo[y], xlo[x], c, xfr[x])
            ELSE (dy - yfr[y]) * Row(ylo[y], xlo[x], c, xfr[x])
                 + yfr[y] * Row(ylo[y] + 1, xlo[x], c, xfr[x])
    IN [shape |-> <<Oh, Ow, C>>, den |-> a.den * dy * dx,
        data |-> Elements([i \in 1..(Oh * Ow * C) |->
                     LET j == i - 1
                     IN Val(j \div (Ow * C), (j \div C) % Ow, j % C)])]

RECURSIVE SumFn(_, _, _)
SumFn(f, lo, hi) == IF lo > hi THEN 0 ELSE f[lo] + SumFn(f, lo + 1, hi)

\* anti_aliasing=True smooths an axis that is downsampled (In > Out) with a
\* Gaussian of sigma = (In/Out - 1) / 2 before interpolating, truncated at
\* 4 sigma.  The weights exp(-x^2 / (2 sigma^2)) are irrational; they are
\* taken here as 1 / (1 + t + t^2/2), t = x^2 / (2 sigma^2), in eighths.
KernelRadius(In, Out) == IF In <= Out THEN 0 ELSE (4 * In - 3 * Out) \div (2 * Out)

Kernel(In, Out) ==
    LET lw == KernelRadius(In, Out)
        b == (In - Out) * (In - Out)
        W(x) == LET a == 2 * x * x * Out * Out
                IN (8 * 2 * b * b) \div (2 * b * b + 2 * a * b + a * a)
    IN IF lw = 0 THEN [x \in 0..0 |-> 1]
       ELSE Elements([x \in (0 - lw)..lw |-> W(Abs(x))])

\* the filter is separable: along axis 1 (rows), then along axis 0
gaussian_filter(a, Oh, Ow) ==
    LET Ih == a.shape[1]
        Iw == a.shape[2]
        C == a.shape[3]
        ky == Kernel(Ih, Oh)
        kx == Kernel(Iw, Ow)
        ry == KernelRadius(Ih, Oh)
        rx == KernelRadius(Iw, Ow)
        Ty == SumFn(ky, 0 - ry, ry)
        Tx == SumFn(kx, 0 - rx, rx)
        Idx(y, x, c) == 1 + (Mirror(y, Ih) * Iw + Mirror(x, Iw)) * C + c
        rows == Elements([i \in 1..(Ih * Iw * C) |->
                    LET j == i - 1
                        y == j \div (Iw * C)
                        x == (j \div C) % Iw
                        c == j % C
                    IN SumFn([d \in (0 - rx)..rx |-> kx[d] * a.data[Idx(y, x + d, c)]],
                             0 - rx, rx)])
    IN [shape |-> a.shape, den |-> a.den * Ty * Tx,
        data |-> Elements([i \in 1..(Ih * Iw * C) |->
                    LET j == i - 1
                        y == j \div (Iw * C)
                        x == (j \div C) % Iw
                        c == j % C
                    IN SumFn([d \in (0 - ry)..ry |-> ky[d] * rows[Idx(y + d, x, c)]],
                             0 - ry, ry)])]

\* clip=True: the output is clipped to the value range [lo, hi] of the
\* input image
clip_output(data, lo, hi) ==
    [i \in DOMAIN data |->
        LET v == data[i]
        IN IF v < lo THEN lo ELSE IF v > hi THEN hi ELSE v]

\* resize raises on what is not an array and on a negative target size (no
\* array has such a shape)
resize_raises(image, output_shape) ==
    IF image.kind # "ndarray" THEN TRUE
    ELSE \E i \in DOMAIN output_shape : output_shape[i] < 0

ResizeError(image, output_shape) == [origin |-> "resize", exc |-> "ValueError"]

\* k = resize(k, (h, w), anti_aliasing=False)
\* A shorter output_shape is completed with the image's trailing axes.
resize(image, output_shape, anti_aliasing) ==
    LET Oh == output_shape[1]
        Ow == output_shape[2]
        img == img_as_float(image)
        filtered == IF anti_aliasing THEN gaussian_filter(img, Oh, Ow) ELSE img
        out == zoom(filtered, Oh, Ow)
        m == out.den \div img.den
    IN Canon("ndarray", "float64", None, out.shape, out.den,
             clip_output(out.data, m * SetMin(Range(img.data)),
                         m * SetMax(Range(img.data))))

(***************************************************************************)
(* torch.                                                                  *)
(***************************************************************************)
\* k = torch.Tensor(k): a new float32 tensor on the CPU with the array's
\* shape and elements
TorchTensor(a) ==
    [kind |-> "tensor", dtype |-> "float32", device |-> "cpu",
     shape |-> a.shape, den |-> a.den, data |-> a.data]

\* the conventional channel-first order (C, H, W)
PermuteDimsCHW == <<2, 0, 1>>

\* k.permute(2, 1, 0)
PermuteDims == <<2, 1, 0>>

\* t.reshape(shape of the permuted tensor): the elements stay in their order
reshape_as_permuted(t, dims) ==
    [t EXCEPT !.shape = [n \in 1..3 |-> t.shape[dims[n] + 1]]]

\* t.permute(dims) of a 3-D tensor: axis n of the result is axis dims[n+1]
\* of t, so result[i0, i1, i2] = t[j] with j[dims[n+1]] = i_n
permute(t, dims) ==
    LET shp == [n \in 1..3 |-> t.shape[dims[n] + 1]]
        Src(i) == [m \in 0..2 |-> i[CHOOSE n \in 1..3 : dims[n] = m]]
    IN [t EXCEPT
          !.shape = shp,
          !.data = Elements([q \in 1..Len(t.data) |->
                      LET j == q - 1
                          i == <<j \div (shp[2] * shp[3]),
                                 (j \div shp[3]) % shp[2], j % shp[3]>>
                          s == Src(i)
                      IN At3(t, s[0], s[1], s[2])])]

\* t.unsqueeze(0): a new leading axis of size 1, the elements as they are
unsqueeze(t, dim) ==
    [t EXCEPT !.shape = SubSeq(t.shape, 1, dim) \o <<1>>
                        \o SubSeq(t.shape, dim + 1, Len(t.shape))]

\* k.to(device) with its result dropped: the tensor stays where it was
to_dropped(t, dev) == t

\* t.to(device)
to(t, dev) == [t EXCEPT !.device = dev]

\* t.to(device) raises when the device does not exist
DeviceError(dev) == [origin |-> "to", exc |-> "RuntimeError"]

(***************************************************************************)
(* get_screen.                                                             *)
(***************************************************************************)
\* a default of 84, the other common frame size
BindH84(a) == IF a = Omitted THEN 84 ELSE a[1]

\* def get_screen(env, device, h=80, w=80)
BindH(a) == IF a = Omitted THEN DefaultH ELSE a[1]
BindW(a) == IF a = Omitted THEN DefaultW ELSE a[1]

\* the renderer's other mode, which draws to a window and returns no array
RenderModeHuman == "human"

\* env.render(mode='rgb_array')
RenderMode == "rgb_array"

\* the smoothing resize
AntiAliasingOn == TRUE

\* resize(..., anti_aliasing=False)
AntiAliasing == FALSE

\* an error caught and raised again as get_screen's own
Wrapped(e) == [origin |-> "get_screen", exc |-> "RuntimeError"]

\* the body has no try/except: an error leaves get_screen as it was raised
Propagate(e) == e

NoCall == [none |-> TRUE]

VARIABLES
    env,          \* the environment's state
    caller,       \* the arguments the call site passes: [h, w, device]
    calls_left,   \* calls the caller may still make
    steps_left,   \* steps the environment may still take
    pc,           \* "idle", or where the current call stands
    h, w, device, \* get_screen's parameters
    k,            \* get_screen's local k
    ret,          \* the value returned by the current call, or None
    err,          \* the error the current call ended with, or None
    trace,        \* the statements the current call has executed
    env_calls,    \* the calls the current call has made on env
    rendered_env, \* the environment's state when the current call rendered it
    last          \* the previous call, if it returned: its arguments,
                  \* environment state and result

vars == <<env, caller, calls_left, steps_left, pc, h, w, device, k, ret, err,
          trace, env_calls, rendered_env, last>>

world == <<env, caller, calls_left, steps_left, last>>
params == <<h, w, device>>

\* h and w as a call site passes them: positive sizes, and a negative one.
\* A size of 0 is left out: resize documents no behaviour for an empty target.
ExplicitArgs == {<<v>> : v \in {-1} \cup (1..MaxDim)}

Locals ==
    /\ pc = "idle"
    /\ h = None /\ w = None /\ device = None
    /\ k = None /\ ret = None /\ err = None
    /\ trace = <<>> /\ env_calls = <<>>
    /\ rendered_env = None
    /\ last = NoCall

\* a call site that passes h and w
Init ==
    /\ env \in {e \in Envs : ~e.closed}
    /\ caller \in [h : ExplicitArgs, w : ExplicitArgs, device : Devices]
    /\ calls_left = MaxCalls
    /\ steps_left = MaxEnvSteps
    /\ Locals

\* a call site that leaves out h, w or both; the call that leaves out both
\* is made once, on the first picture, for the CPU
InitDefault ==
    /\ env \in {e \in Envs : ~e.closed /\ e.pattern = 1}
    /\ caller \in [h : ExplicitArgs \cup {Omitted}, w : ExplicitArgs \cup {Omitted},
                   device : Devices]
    /\ Omitted \in {caller.h, caller.w}
    /\ {caller.h, caller.w} = {Omitted} => caller.device = "cpu"
    /\ calls_left = IF {caller.h, caller.w} = {Omitted} THEN 1 ELSE MaxCalls
    /\ steps_left = IF {caller.h, caller.w} = {Omitted} THEN 0 ELSE MaxEnvSteps
    /\ Locals

\* the environment is stepped between calls (what it does after the last
\* call is of no interest)
EnvStep ==
    /\ pc \in {"idle", "returned", "raised"}
    /\ steps_left > 0
    /\ calls_left > 0
    /\ ~env.closed
    /\ env' = EnvAfterStep(env)
    /\ steps_left' = steps_left - 1
    /\ UNCHANGED <<caller, calls_left, pc, params, k, ret, err, trace,
                   env_calls, rendered_env, last>>

\* the environment is closed between calls
EnvClose ==
    /\ pc \in {"idle", "returned", "raised"}
    /\ ~env.closed
    /\ calls_left > 0
    /\ env' = EnvAfterClose(env)
    /\ UNCHANGED <<caller, calls_left, steps_left, pc, params, k, ret, err,
                   trace, env_calls, rendered_env, last>>

\* get_screen(env, device[, h][, w]) is entered
Call ==
    /\ pc \in {"idle", "returned", "raised"}
    /\ calls_left > 0
    /\ calls_left' = calls_left - 1
    /\ last' = IF pc = "returned"
               THEN [env |-> rendered_env, h |-> h, w |-> w, device |-> device,
                     ret |-> ret]
               ELSE NoCall
    /\ h' = BindH(caller.h)
    /\ w' = BindW(caller.w)
    /\ device' = caller.device
    /\ k' = None /\ ret' = None /\ err' = None
    /\ trace' = <<>> /\ env_calls' = <<>>
    /\ rendered_env' = None
    /\ pc' = "called"
    /\ UNCHANGED <<env, caller, steps_left>>

\* a statement raises: get_screen ends with the error
Raise(step, e) ==
    /\ pc' = "raised"
    /\ err' = Propagate(e)
    /\ trace' = Append(trace, step)
    /\ UNCHANGED <<world, params, k, ret>>

\* a statement completes: k is rebound
Assign(step, value, next) ==
    /\ pc' = next
    /\ k' = value
    /\ trace' = Append(trace, step)
    /\ UNCHANGED <<world, params, ret, err>>

\* k = env.render(mode='rgb_array')
Render ==
    /\ pc = "called"
    /\ ~env.closed
    /\ env_calls' = Append(env_calls, [method |-> "render", mode |-> RenderMode])
    /\ rendered_env' = env
    /\ Assign("render", render(env, RenderMode), "rendered")

RenderFails ==
    /\ pc = "called"
    /\ env.closed
    /\ env_calls' = Append(env_calls, [method |-> "render", mode |-> RenderMode])
    /\ rendered_env' = env
    /\ Raise("render", RenderError(env))

\* k = resize(k, (h, w), anti_aliasing=False)
Resize ==
    /\ pc = "rendered"
    /\ ~resize_raises(k, <<h, w>>)
    /\ Assign("resize", resize(k, <<h, w>>, AntiAliasing), "resized")
    /\ UNCHANGED <<env_calls, rendered_env>>

ResizeFails ==
    /\ pc = "rendered"
    /\ resize_raises(k, <<h, w>>)
    /\ Raise("resize", ResizeError(k, <<h, w>>))
    /\ UNCHANGED <<env_calls, rendered_env>>

\* k = torch.Tensor(k)
Tensor ==
    /\ pc = "resized"
    /\ Assign("tensor", TorchTensor(k), "tensor")
    /\ UNCHANGED <<env_calls, rendered_env>>

\* k = k.permute(2,1,0).unsqueeze(0), first call
Permute ==
    /\ pc = "tensor"
    /\ Assign("permute", permute(k, PermuteDims), "permuted")
    /\ UNCHANGED <<env_calls, rendered_env>>

\* k = k.permute(2,1,0).unsqueeze(0), second call
Unsqueeze ==
    /\ pc = "permuted"
    /\ Assign("unsqueeze", unsqueeze(k, 0), "unsqueezed")
    /\ UNCHANGED <<env_calls, rendered_env>>

\* k = k.to(device)
To ==
    /\ pc = "unsqueezed"
    /\ device \in Available
    /\ Assign("to", to(k, device), "placed")
    /\ UNCHANGED <<env_calls, rendered_env>>

ToFails ==
    /\ pc = "unsqueezed"
    /\ device \notin Available
    /\ Raise("to", DeviceError(device))
    /\ UNCHANGED <<env_calls, rendered_env>>

\* the difference to the frame the previous call returned, kept from it
ReturnDifference(t) ==
    IF last = NoCall THEN t
    ELSE IF last.ret.shape # t.shape THEN t
    ELSE Canon(t.kind, t.dtype, t.device, t.shape, t.den * last.ret.den,
               [i \in DOMAIN t.data |->
                   t.data[i] * last.ret.den - last.ret.data[i] * t.den])

\* return k
ReturnValue(t) == t

Return ==
    /\ pc = "placed"
    /\ pc' = "returned"
    /\ ret' = ReturnValue(k)
    /\ UNCHANGED <<world, params, k, err, trace, env_calls, rendered_env>>

Next ==
    \/ EnvStep
    \/ EnvClose
    \/ Call
    \/ Render
    \/ RenderFails
    \/ Resize
    \/ ResizeFails
    \/ Tensor
    \/ Permute
    \/ Unsqueeze
    \/ To
    \/ ToFails
    \/ Return

Spec == Init /\ [][Next]_vars

SpecDefault == InitDefault /\ [][Next]_vars

(***************************************************************************)
(* Properties.                                                             *)
(***************************************************************************)
Frame == render(rendered_env, "rgb_array")

\* C1: a call with positive h and w on an (H0, W0, C) render, C = 3 included,
\* returns a tensor of exactly 4 dimensions and shape (1, C, w, h), whatever
\* H0 and W0 are; a call that ends in an error did not fail in the resize.
C1_Shape ==
    /\ pc = "returned" =>
          /\ ret.kind = "tensor"
          /\ Len(ret.shape) = 4
          /\ ret.shape = <<1, rendered_env.C, w, h>>
          /\ Len(ret.data) = rendered_env.C * w * h
    /\ pc = "raised" /\ h > 0 /\ w > 0 => err.origin \in {"render", "to"}

C1_Witness ==
    /\ pc = "returned"
    /\ rendered_env.C = 3
    /\ h = 1 /\ w = 2
    /\ rendered_env.H0 = 3 /\ rendered_env.W0 = 1
    /\ ret.shape = <<1, 3, 2, 1>>

\* C2: a call that leaves out h and w resizes to (80, 80) and returns a
\* tensor of shape (1, C, 80, 80), whatever the native resolution.
C2_Default ==
    /\ pc # "idle" /\ caller.h = Omitted => h = 80
    /\ pc # "idle" /\ caller.w = Omitted => w = 80
    /\ pc = "resized" /\ caller.h = Omitted /\ caller.w = Omitted =>
          k.shape = <<80, 80, rendered_env.C>>
    /\ pc = "returned" /\ caller.h = Omitted /\ caller.w = Omitted =>
          ret.shape = <<1, rendered_env.C, 80, 80>>

C2_Witness ==
    /\ pc = "returned"
    /\ caller.h = Omitted /\ caller.w = Omitted
    /\ rendered_env.C = 3 /\ rendered_env.H0 = 3 /\ rendered_env.W0 = 2
    /\ ret.shape = <<1, 3, 80, 80>>

\* C3: the tensor a call returns is on the device passed as the device
\* argument.
C3_Device ==
    pc = "returned" =>
        /\ ret.kind = "tensor"
        /\ ret.device = caller.device
        /\ ret = k
        /\ trace[Len(trace)] = "to"

C3_Witness ==
    /\ pc = "returned"
    /\ caller.device = "cuda:0"
    /\ ret.device = "cuda:0"

IsPrefix(s, t) == Len(s) <= Len(t) /\ s = SubSeq(t, 1, Len(s))

ClaimedOrder == <<"render", "resize", "tensor", "permute", "unsqueeze", "to">>

\* C5: when the render, the resize or the device placement fails, the call
\* ends with that step's own error, the step was tried once, no later step
\* ran and nothing is returned; and a call that returns had no failing step.
C5_Propagation ==
    /\ pc = "raised" =>
          /\ ret = None
          /\ trace # <<>>
          /\ IsPrefix(trace, ClaimedOrder)
          /\ Len(env_calls) = 1
          /\ LET s == trace[Len(trace)]
             IN /\ s \in {"render", "resize", "to"}
                /\ s = "render" => err = RenderError(rendered_env) /\ k = None
                /\ s = "resize" => err = ResizeError(k, <<h, w>>) /\ k = Frame
                /\ s = "to" => err = DeviceError(device)
    /\ pc = "returned" =>
          /\ err = None
          /\ ~rendered_env.closed
          /\ h > 0 /\ w > 0
          /\ device \in Available

C5_Witness ==
    /\ pc = "raised"
    /\ trace = ClaimedOrder
    /\ err = DeviceError("cuda:1")
    /\ ret = None

RefPlain == resize(Frame, <<h, w>>, FALSE)
RefSmooth == resize(Frame, <<h, w>>, TRUE)

\* element (0, c, x, y) of the 4-D tensor t is element (y, x, c) of the 3-D
\* array a, as numbers
SameAsPermuted(t, a) ==
    /\ t.shape = <<1, a.shape[3], a.shape[2], a.shape[1]>>
    /\ \A c \in 0..(a.shape[3] - 1), x \in 0..(a.shape[2] - 1),
          y \in 0..(a.shape[1] - 1) :
          At4(t, 0, c, x, y) * a.den = At3(a, y, x, c) * t.den

ResizedWithout(a, plain, smooth) ==
    /\ a = plain
    /\ plain # smooth => a # smooth

ReturnedWithout(t, plain, smooth) ==
    /\ SameAsPermuted(t, plain)
    /\ plain # smooth => ~SameAsPermuted(t, smooth)

\* C7: the resize is made with anti-aliasing disabled: the resized array, and
\* the elements of the returned tensor, are those of the resize without
\* anti-aliasing, and not those of the resize with it where the two differ.
C7_NoAntiAliasing ==
    /\ pc = "resized" => ResizedWithout(k, RefPlain, RefSmooth)
    /\ pc = "returned" => ReturnedWithout(ret, RefPlain, RefSmooth)

C7_Witness ==
    /\ pc = "returned"
    /\ Patterns[rendered_env.pattern] = "checker"
    /\ rendered_env.H0 > h
    /\ RefPlain # RefSmooth
    /\ SameAsPermuted(ret, RefPlain)

\* element (0, c, x, y) of the returned tensor, times num / dnm, is element
\* (y, x, c) of the rendered frame
RetIsFrameScaled(num, dnm) ==
    \A c \in 0..(Frame.shape[3] - 1), x \in 0..(Frame.shape[2] - 1),
       y \in 0..(Frame.shape[1] - 1) :
       At4(ret, 0, c, x, y) * num * Frame.den = At3(Frame, y, x, c) * dnm * ret.den

NativeSize ==
    /\ pc = "returned"
    /\ rendered_env.H0 = h
    /\ rendered_env.W0 = w

\* C8 as stated: for an 8-bit render whose native size is (h, w), the
\* elements returned equal the input intensities.
C8_Unscaled ==
    NativeSize /\ Frame.dtype = "uint8" => RetIsFrameScaled(1, 1)

\* C8, amended: get_screen has no normalisation step of its own, but its
\* resize (preserve_range left at False) converts an 8-bit render to floats
\* in [0, 1]: with the native size equal to (h, w) every element returned is
\* the input intensity divided by 255, and at any size every element lies in
\* [0, 1]; a floating-point render is not rescaled.
C8_ScaledBy255 ==
    /\ NativeSize /\ Frame.dtype = "uint8" => RetIsFrameScaled(255, 1)
    /\ NativeSize /\ Frame.dtype = "float64" => RetIsFrameScaled(1, 1)
    /\ pc = "returned" /\ Frame.dtype = "uint8" =>
          \A i \in DOMAIN ret.data : 0 <= ret.data[i] /\ ret.data[i] <= ret.den

C8_Witness ==
    /\ NativeSize
    /\ Frame.dtype = "uint8"
    /\ Patterns[rendered_env.pattern] = "ramp"
    /\ h = 2 /\ w = 2
    /\ RetIsFrameScaled(255, 1)
    /\ ~RetIsFrameScaled(1, 1)

\* C9: the reformatting is an axis permutation of the resized tensor R of
\* shape (h, w, C): the permute step yields shape (C, w, h) with element
\* (c, x, y) equal to R[y][x][c], the unsqueeze step puts a first axis of
\* size 1 before it and moves nothing, and no element is changed.
C9_Step ==
    /\ pc = "tensor" /\ pc' = "permuted" =>
          /\ k'.shape = <<k.shape[3], k.shape[2], k.shape[1]>>
          /\ k'.den = k.den
          /\ Len(k'.data) = Len(k.data)
          /\ \A c \in 0..(k.shape[3] - 1), x \in 0..(k.shape[2] - 1),
                y \in 0..(k.shape[1] - 1) :
                At3(k', c, x, y) = At3(k, y, x, c)
    /\ pc = "permuted" /\ pc' = "unsqueezed" =>
          /\ k'.shape = <<1>> \o k.shape
          /\ k'.den = k.den
          /\ Len(k'.data) = Len(k.data)
          /\ \A c \in 0..(k.shape[1] - 1), x \in 0..(k.shape[2] - 1),
                y \in 0..(k.shape[3] - 1) :
                At4(k', 0, c, x, y) = At3(k, c, x, y)

\* C9: every permute and unsqueeze step of every call is such a permutation.
C9_Permutation == [][C9_Step]_vars

\* the resized tensor the reformatting started from
Resized == TorchTensor(resize(Frame, <<h, w>>, AntiAliasing))

C9_Witness ==
    /\ pc = "unsqueezed"
    /\ h = 2 /\ w = 2 /\ rendered_env.C = 3
    /\ SameAsPermuted(k, Resized)
    /\ k.data # Resized.data

\* C10: a call that returns has executed render, resize, tensor conversion,
\* permutation, batch-axis insertion and device placement once each, in that
\* order; it called the environment once, to render in 'rgb_array' mode; each
\* step's input is the value the step before it produced.
C10_Order ==
    /\ IsPrefix(trace, ClaimedOrder)
    /\ Len(env_calls) <= 1
    /\ \A i \in DOMAIN env_calls :
          env_calls[i] = [method |-> "render", mode |-> "rgb_array"]
    /\ pc = "returned" =>
          /\ trace = ClaimedOrder
          /\ Len(env_calls) = 1

C10_Step ==
    /\ pc' = "rendered" /\ pc # pc' => k' = render(env, "rgb_array")
    /\ pc' = "resized" /\ pc # pc' => pc = "rendered" /\ k' = resize(k, <<h, w>>, FALSE)
    /\ pc' = "tensor" /\ pc # pc' => pc = "resized" /\ k' = TorchTensor(k)
    /\ pc' = "permuted" /\ pc # pc' => pc = "tensor" /\ k' = permute(k, <<2, 1, 0>>)
    /\ pc' = "unsqueezed" /\ pc # pc' => pc = "permuted" /\ k' = unsqueeze(k, 0)
    /\ pc' = "placed" /\ pc # pc' => pc = "unsqueezed" /\ k' = to(k, device)
    /\ pc' = "returned" /\ pc # pc' => pc = "placed" /\ ret' = k
    /\ pc \notin {"idle", "returned", "raised"} => env' = env

\* C10: the order holds in every state and the data flow in every step.
C10_Sequence == []C10_Order /\ [][C10_Step]_vars

C10_Witness ==
    /\ pc = "returned"
    /\ trace = ClaimedOrder
    /\ env_calls = <<[method |-> "render", mode |-> "rgb_array"]>>
    /\ calls_left = 0

=============================================================================
